---- MODULE Spec2Model ----
(***************************************************************************)
(* Model of scripts/run_claude.py: the audit logger (log_to_agent), the    *)
(* four tools (read_file, write_file, edit_file, run_bash) and the         *)
(* controller (main).                                                      *)
(*                                                                         *)
(* A text is a sequence of tokens (strings).  A token is one character     *)
(* ("a", "\n", "\r"), or a piece of text that is never split (a keyword,   *)
(* a path, a timestamp).  A file is a text; the file system holds the two  *)
(* files the logger appends to and one file of the user, and the tools     *)
(* take any of the three paths.                                            *)
(*                                                                         *)
(* Every function is a sequence of steps, one per file or process          *)
(* operation, joined by pc; the process can stop between two steps.        *)
(***************************************************************************)
EXTENDS Integers, Sequences, FiniteSets, TLC

\* ------------------------------------------------------------------ bounds
\* Calls (tool calls, record calls, controller runs) in one behaviour.
MaxCalls == 2
\* The clock's last instant.
MaxClock == 1
\* the longest list of tests, and of files, of a task handed to the prompt
MaxItems == 2

\* --------------------------------------------------------------- constants
AGENT_LOG_PATH == "/tmp/agent.log"
PROMPTS_MD_PATH == "/tmp/prompts.md"
\* A file of the user.
USER_PATH == "work.txt"
Paths == {AGENT_LOG_PATH, PROMPTS_MD_PATH, USER_PATH}

\* subprocess.run(..., timeout=60)
TIMEOUT_SECONDS == 60

\* os.linesep of the platform of /tmp paths.
LineSep == "\n"

\* ------------------------------------------------------------ text helpers
Min(a, b) == IF a < b THEN a ELSE b

\* s[i..] starts with sub
StartsAt(s, i, sub) ==
    /\ i + Len(sub) - 1 <= Len(s)
    /\ SubSeq(s, i, i + Len(sub) - 1) = sub

\* Python: sub in s
Contains(s, sub) == \E i \in 1..(Len(s) + 1) : StartsAt(s, i, sub)

\* Python: s.find(sub) + 1, for a sub that occurs
FindFirst(s, sub) ==
    CHOOSE i \in 1..(Len(s) + 1) :
        /\ StartsAt(s, i, sub)
        /\ \A j \in 1..(i - 1) : ~StartsAt(s, j, sub)

\* Python: s.replace(old, new, 1)
ReplaceFirst(s, old, new) ==
    IF ~Contains(s, old) THEN s
    ELSE LET i == FindFirst(s, old)
         IN  SubSeq(s, 1, i - 1) \o new \o SubSeq(s, i + Len(old), Len(s))

\* The number of positions of s at which sub occurs.
Occurrences(s, sub) == Cardinality({i \in 1..(Len(s) + 1) : StartsAt(s, i, sub)})

\* The number of tokens of s equal to tok.
CountTok(s, tok) == Cardinality({i \in 1..Len(s) : s[i] = tok})

IsPrefix(s, t) == Len(s) <= Len(t) /\ SubSeq(t, 1, Len(s)) = s

EndsWith(t, s) == Len(s) <= Len(t) /\ SubSeq(t, Len(t) - Len(s) + 1, Len(t)) = s

RECURSIVE UniversalNewlines(_)
\* Reading a file opened with open(path, "r"): newline=None turns "\r\n" and
\* "\r" into "\n".
UniversalNewlines(s) ==
    IF s = <<>> THEN <<>>
    ELSE IF s[1] = "\r" /\ Len(s) >= 2 /\ s[2] = "\n"
         THEN <<"\n">> \o UniversalNewlines(SubSeq(s, 3, Len(s)))
    ELSE IF s[1] = "\r"
         THEN <<"\n">> \o UniversalNewlines(Tail(s))
    ELSE <<s[1]>> \o UniversalNewlines(Tail(s))

\* Writing to a file opened with open(path, "w") or open(path, "a"):
\* newline=None turns "\n" into os.linesep.
TextWrite(s) == [i \in 1..Len(s) |-> IF s[i] = "\n" THEN LineSep ELSE s[i]]

\* ------------------------------------------------------------------- JSON
\* json.dumps of one character of a string
JsonEscapeTok(c) ==
    IF c = "\n" THEN "\\n"
    ELSE IF c = "\r" THEN "\\r"
    ELSE c

\* json.dumps of a string
JsonEscape(s) == [i \in 1..Len(s) |-> JsonEscapeTok(s[i])]

\* datetime.now(UTC).isoformat() at instant t
IsoFormat(t) == <<"T0", "T1", "T2", "T3", "T4", "T5">>[t + 1]
Instants == 0..5
TimestampToks == {IsoFormat(t) : t \in Instants}
InstantOf(tok) == CHOOSE t \in Instants : IsoFormat(t) = tok

EntryTypes == {"request", "response", "tool_use"}

\* json.dumps(entry): the keys in insertion order, "timestamp" last.
JsonDumps(entry) ==
    <<"{", entry.type>>
    \o (IF "tool" \in DOMAIN entry THEN <<entry.tool>> \o JsonEscape(entry.args)
        ELSE JsonEscape(entry.content))
    \o <<entry.timestamp, "}">>

\* f.write(json.dumps(entry) + "\n")
LogLine(entry) == JsonDumps(entry) \o <<"\n">>

\* json.dumps(entry.get("args", {}), indent=2)
JsonDumpsIndent(args) == <<"{", "\n">> \o JsonEscape(args) \o <<"\n", "}">>

\* A plausible slip: a final else that gives every other type a section.
SectionWithDefault(entry) ==
    IF entry.type = "request"
    THEN <<"\n", "## Prompt Sent to Gemini", "\n", "\n">> \o entry.content \o <<"\n">>
    ELSE IF entry.type = "response"
    THEN <<"\n", "## Gemini Response", "\n", "\n">> \o entry.content \o <<"\n">>
    ELSE IF entry.type = "tool_use"
    THEN <<"\n", "## Tool Used: ", entry.tool, "\n", "\n">>
         \o JsonDumpsIndent(entry.args) \o <<"\n">>
    ELSE <<"\n", "## ", entry.type, "\n", "\n">>

\* What log_to_agent writes to prompts.md for an entry.
Section(entry) ==
    IF entry.type = "request"
    THEN <<"\n", "## Prompt Sent to Gemini", "\n", "\n">> \o entry.content \o <<"\n">>
    ELSE IF entry.type = "response"
    THEN <<"\n", "## Gemini Response", "\n", "\n">> \o entry.content \o <<"\n">>
    ELSE IF entry.type = "tool_use"
    THEN <<"\n", "## Tool Used: ", entry.tool, "\n", "\n">>
         \o JsonDumpsIndent(entry.args) \o <<"\n">>
    ELSE <<>>

\* ------------------------------------------------------------- environment
\* What the caller passes to write_file as content, and what the user's file
\* holds at the start.  ForgedLine is a text that reads as a line of the log.
ForgedLine == <<"{", "tool_use", "write_file", USER_PATH, IsoFormat(5), "}", "\n">>
Texts == {<<"a", "b", "a">>, <<"a", "\r", "b">>, ForgedLine}
\* What the caller passes to edit_file as old_text and new_text.
EditPairs == {<<(<<"a">>), (<<"c">>)>>, <<(<<"b", "a">>), (<<"c">>)>>, <<(<<"a">>), (<<"c", "a">>)>>}

\* What the shell does with a command: whether the process can be spawned,
\* how long it runs, whether its output decodes as text, and its output.
Commands == {<<"true">>, <<"false", "\n">>, <<"sleep 61">>, <<"NUL">>, <<"printf \\377">>}
Exec(command) ==
    [spawned   |-> command # <<"NUL">>,
     seconds   |-> IF command = <<"sleep 61">> THEN 61 ELSE 0,
     decodable |-> command # <<"printf \\377">>,
     returncode |-> IF command = <<"false", "\n">> THEN 1 ELSE 0,
     stdout    |-> IF command = <<"true">> THEN <<"ok", "\n">> ELSE <<>>,
     stderr    |-> IF command = <<"false", "\n">> THEN <<"err", "\n">> ELSE <<>>]

\* Entries a caller passes to log_to_agent directly.
DirectEntries ==
    {[type |-> "request", content |-> <<"p", "\n", "q">>],
     [type |-> "note", content |-> <<"n", "\n">>]}

ToolOps == {"read_file", "write_file", "edit_file", "run_bash"}

NoResult == [none |-> TRUE]
NoLocal == [none |-> TRUE]
NoEntry == [type |-> "none"]
NoPrev == [op |-> "none"]

\* ------------------------------------------------------------------ state
VARIABLES
    fs,        \* path -> the text of the file
    present,   \* the paths that exist
    written,   \* the paths write_file or edit_file has written to
    denied,    \* the paths open() refuses (permissions)
    now,       \* the clock
    pc,        \* where the running function is
    op,        \* the function that was called
    args,      \* its arguments
    local,     \* its local variables
    entry,     \* the entry log_to_agent was given
    result,    \* what the function returned
    raised,    \* the exception that left the function, or "none"
    exit,      \* the exit status of the controller's process, or "none"
    calls,     \* the number of calls so far
    emitted,   \* the lines the running call has appended to the log
    prev       \* the call before this one, as its caller saw it

vars == <<fs, present, written, denied, now, pc, op, args, local, entry, result, raised,
          exit, calls, emitted, prev>>

LogText == fs[AGENT_LOG_PATH]
MdText == fs[PROMPTS_MD_PATH]

Init ==
    /\ \E t \in {<<>>, <<"a", "\r", "b">>} :
        /\ fs = [p \in Paths |-> IF p = USER_PATH THEN t ELSE <<>>]
        /\ present = IF t = <<>> THEN {} ELSE {USER_PATH}
    /\ written = {}
    /\ denied \in {{}, {AGENT_LOG_PATH}, {PROMPTS_MD_PATH}}
    /\ now = 0
    /\ pc = "idle"
    /\ op = "none"
    /\ args = [none |-> TRUE]
    /\ local = NoLocal
    /\ entry = NoEntry
    /\ result = NoResult
    /\ raised = "none"
    /\ exit = "none"
    /\ calls = 0
    /\ emitted = 0
    /\ prev = NoPrev

\* -------------------------------------------------------------- file system
\* open(path, "r") succeeds
CanRead(path) == path \in present /\ path \notin denied
\* open(path, "w") and open(path, "a") succeed (and create the file)
CanWrite(path) == path \notin denied
\* str(e) of the exception open() raises
OpenError(path) == IF path \in denied THEN "PermissionError" ELSE "FileNotFoundError"

\* with open(path, "w") as f: f.write(text)
Overwrite(path, text) ==
    /\ fs' = [fs EXCEPT ![path] = TextWrite(text)]
    /\ present' = present \cup {path}
    /\ written' = written \cup {path}

\* with open(path, "a") as f: f.write(text)
AppendTo(path, text) ==
    /\ fs' = [fs EXCEPT ![path] = fs[path] \o TextWrite(text)]
    /\ present' = present \cup {path}
    /\ UNCHANGED written

\* ------------------------------------------------------------ call and return
IsSuccess(r) == "success" \in DOMAIN r /\ r.success
IsFailure(r) == "success" \in DOMAIN r /\ ~r.success

\* A caller makes the next call: it keeps what the last one gave it.
Begin(o, a) ==
    /\ pc = "idle"
    /\ calls < MaxCalls
    /\ calls' = calls + 1
    /\ prev' = IF op \in {"write_file", "edit_file"} /\ IsSuccess(result)
               THEN [op |-> op, args |-> args, local |-> local]
               ELSE NoPrev
    /\ op' = o
    /\ args' = a
    /\ emitted' = 0

\* A plausible slip: run_bash without its try ... except.
CatchesAllButRunBash(o) == o \in ToolOps \ {"run_bash"}

\* The try ... except Exception of each tool.
Catches(o) == o \in ToolOps

\* The function o goes on to its step at next.
Goto(next) ==
    /\ pc' = next
    /\ result' = NoResult
    /\ raised' = "none"
    /\ exit' = "none"

\* The function returns r to its caller.
Return(r) ==
    /\ pc' = "idle"
    /\ result' = r
    /\ raised' = "none"
    /\ exit' = "none"

\* An exception e is raised in the function o: its handler turns it into a
\* result, or it leaves the function (and ends the controller's process).
Raise(o, e) ==
    /\ pc' = "idle"
    /\ IF Catches(o)
       THEN result' = [success |-> FALSE, error |-> e] /\ raised' = "none" /\ exit' = "none"
       ELSE result' = NoResult /\ raised' = e
            /\ exit' = IF o = "main" THEN "1" ELSE "none"

ToolEntry(tool, argtext) == [type |-> "tool_use", tool |-> tool, args |-> argtext]

\* ------------------------------------------------------------------ tools
\* read_file: open and read, then on to log_to_agent.
ReadFile(file_path) ==
    /\ Begin("read_file", [file_path |-> file_path])
    /\ UNCHANGED <<fs, present, written, denied, now>>
    /\ IF CanRead(file_path)
       THEN /\ local' = [content |-> UniversalNewlines(fs[file_path])]
            /\ entry' = ToolEntry("read_file", <<file_path>>)
            /\ Goto("log")
       ELSE /\ Raise("read_file", OpenError(file_path))
            /\ UNCHANGED <<local, entry>>

\* write_file: open for writing and write, then on to log_to_agent.
WriteFile(file_path, content) ==
    /\ Begin("write_file", [file_path |-> file_path, content |-> content])
    /\ UNCHANGED <<denied, now, local>>
    /\ IF CanWrite(file_path)
       THEN /\ Overwrite(file_path, content)
            /\ entry' = ToolEntry("write_file", <<file_path>>)
            /\ Goto("log")
       ELSE /\ Raise("write_file", OpenError(file_path))
            /\ UNCHANGED <<fs, present, written, entry>>

\* A plausible slip: the file is opened "r+" and its content written back
\* before old_text is looked for.
EditFileReadRewrites(file_path, old_text, new_text) ==
    /\ Begin("edit_file", [file_path |-> file_path, old_text |-> old_text,
                           new_text |-> new_text])
    /\ UNCHANGED <<denied, now, entry>>
    /\ IF ~CanRead(file_path)
       THEN /\ Raise("edit_file", OpenError(file_path))
            /\ UNCHANGED <<fs, present, written, local>>
       ELSE LET content == UniversalNewlines(fs[file_path])
            IN  IF ~Contains(content, old_text)
                THEN /\ Return([success |-> FALSE, error |-> "Old text not found"])
                     /\ local' = [content |-> content, original |-> fs[file_path]]
                     /\ Overwrite(file_path, content)
                ELSE /\ local' = [content |-> content, original |-> fs[file_path],
                                  new_content |-> ReplaceFirst(content, old_text, new_text)]
                     /\ UNCHANGED <<fs, present, written>>
                     /\ Goto("edit_write")

\* edit_file: open and read, look for old_text, compute the new content.
EditFileRead(file_path, old_text, new_text) ==
    /\ Begin("edit_file", [file_path |-> file_path, old_text |-> old_text,
                           new_text |-> new_text])
    /\ UNCHANGED <<fs, present, written, denied, now, entry>>
    /\ IF ~CanRead(file_path)
       THEN /\ Raise("edit_file", OpenError(file_path))
            /\ UNCHANGED local
       ELSE LET content == UniversalNewlines(fs[file_path])
            IN  IF ~Contains(content, old_text)
                THEN /\ Return([success |-> FALSE, error |-> "Old text not found"])
                     /\ local' = [content |-> content, original |-> fs[file_path]]
                ELSE /\ local' = [content |-> content, original |-> fs[file_path],
                                  new_content |-> ReplaceFirst(content, old_text, new_text)]
                     /\ Goto("edit_write")

\* edit_file: open for writing and write the new content.
EditFileWrite ==
    /\ pc = "edit_write"
    /\ UNCHANGED <<denied, now, op, args, local, calls, emitted, prev>>
    /\ IF CanWrite(args.file_path)
       THEN /\ Overwrite(args.file_path, local.new_content)
            /\ entry' = ToolEntry("edit_file", <<args.file_path>>)
            /\ Goto("log")
       ELSE /\ Raise(op, OpenError(args.file_path))
            /\ UNCHANGED <<fs, present, written, entry>>

\* A plausible slip: subprocess.run(..., check=True) raises on a non-zero
\* exit status.
SubprocessRunChecked(command) ==
    LET x == Exec(command)
    IN  IF ~x.spawned THEN [raises |-> "ValueError"]
        ELSE IF x.seconds > TIMEOUT_SECONDS THEN [raises |-> "TimeoutExpired"]
        ELSE IF ~x.decodable THEN [raises |-> "UnicodeDecodeError"]
        ELSE IF x.returncode # 0 THEN [raises |-> "CalledProcessError"]
        ELSE [raises |-> "none", stdout |-> x.stdout, stderr |-> x.stderr,
              returncode |-> x.returncode]

\* subprocess.run(command, shell=True, capture_output=True, text=True,
\* timeout=60): what it raises, or the completed process.
SubprocessRun(command) ==
    LET x == Exec(command)
    IN  IF ~x.spawned THEN [raises |-> "ValueError"]
        ELSE IF x.seconds > TIMEOUT_SECONDS THEN [raises |-> "TimeoutExpired"]
        ELSE IF ~x.decodable THEN [raises |-> "UnicodeDecodeError"]
        ELSE [raises |-> "none", stdout |-> x.stdout, stderr |-> x.stderr,
              returncode |-> x.returncode]

\* run_bash: run the command, then on to log_to_agent.
RunBash(command) ==
    /\ Begin("run_bash", [command |-> command])
    /\ UNCHANGED <<fs, present, written, denied, now>>
    /\ LET r == SubprocessRun(command)
       IN  IF r.raises = "none"
           THEN /\ local' = [stdout |-> r.stdout, stderr |-> r.stderr,
                             returncode |-> r.returncode]
                /\ entry' = ToolEntry("run_bash", command)
                /\ Goto("log")
           ELSE /\ Raise("run_bash", r.raises)
                /\ UNCHANGED <<local, entry>>

\* What a tool returns after log_to_agent has returned.
ToolResult(o, l) ==
    IF o = "read_file" THEN [success |-> TRUE, content |-> l.content]
    ELSE IF o = "run_bash" THEN [success |-> TRUE, stdout |-> l.stdout, stderr |-> l.stderr]
    ELSE [success |-> TRUE]

\* ------------------------------------------------------------ log_to_agent
\* A caller calls log_to_agent itself.
Record(e) ==
    /\ Begin("log_to_agent", [entry |-> e])
    /\ UNCHANGED <<fs, present, written, denied, now, local>>
    /\ entry' = e
    /\ Goto("log")

\* A plausible slip: the entry is stamped but its line is never written.
LogAppendSkipsWrite ==
    /\ pc = "log"
    /\ now' = now
    /\ entry' = [k \in DOMAIN entry \cup {"timestamp"} |->
                    IF k = "timestamp" THEN IsoFormat(now) ELSE entry[k]]
    /\ UNCHANGED <<fs, present, written, denied, op, args, local, calls, prev, emitted>>
    /\ Goto("md")

\* log_to_agent: stamp the entry, open the log for appending, write the line.
LogAppend ==
    /\ pc = "log"
    /\ \E t \in {now, Min(now + 1, MaxClock)} :
        /\ now' = t
        /\ entry' = [k \in DOMAIN entry \cup {"timestamp"} |->
                        IF k = "timestamp" THEN IsoFormat(t) ELSE entry[k]]
    /\ UNCHANGED <<denied, op, args, local, calls, prev>>
    /\ IF CanWrite(AGENT_LOG_PATH)
       THEN /\ AppendTo(AGENT_LOG_PATH, LogLine(entry'))
            /\ emitted' = emitted + 1
            /\ Goto("md")
       ELSE /\ Raise(op, OpenError(AGENT_LOG_PATH))
            /\ UNCHANGED <<fs, present, written, emitted>>

\* Where the caller of log_to_agent goes on.
AfterLog(o, e) ==
    IF o = "main" /\ e.type = "request" THEN "call_model"
    ELSE IF o = "main" THEN "finish"
    ELSE "idle"

\* A plausible slip: the transcript is written without the try ... except.
MdAppendUnguarded ==
    /\ pc = "md"
    /\ UNCHANGED <<denied, now, op, args, local, entry, calls, emitted, prev>>
    /\ IF CanWrite(PROMPTS_MD_PATH)
       THEN /\ AppendTo(PROMPTS_MD_PATH, Section(entry))
            /\ IF op \in ToolOps THEN Return(ToolResult(op, local))
               ELSE IF op = "main" THEN Goto(AfterLog(op, entry))
               ELSE Return(NoResult)
       ELSE /\ UNCHANGED <<fs, present, written>>
            /\ Raise(op, OpenError(PROMPTS_MD_PATH))

\* log_to_agent: open prompts.md for appending and write the section; an
\* exception is printed and dropped.  Then log_to_agent returns, and a tool
\* returns its result.
MdAppend ==
    /\ pc = "md"
    /\ UNCHANGED <<denied, now, op, args, local, entry, calls, emitted, prev>>
    /\ IF CanWrite(PROMPTS_MD_PATH)
       THEN AppendTo(PROMPTS_MD_PATH, Section(entry))
       ELSE UNCHANGED <<fs, present, written>>
    /\ IF op \in ToolOps THEN Return(ToolResult(op, local))
       ELSE IF op = "main" THEN Goto(AfterLog(op, entry))
       ELSE Return(NoResult)

\* ------------------------------------------------------------- controller
\* The task files on disk, as yaml.safe_load reads them.
FullTask ==
    [description |-> <<"Fix", "\n", "it">>, requirements |-> <<"req">>,
     interface |-> <<"iface">>, tests |-> [fail_to_pass |-> <<"test_a", "test_b">>],
     files_to_modify |-> <<"src/x.py">>]
NoDescriptionTask ==
    [requirements |-> <<"req">>, interface |-> <<"iface">>,
     tests |-> [fail_to_pass |-> <<"test_a">>], files_to_modify |-> <<"src/x.py", "src/y.py">>]
TaskFiles == {"task.yaml", "nodesc.yaml", "absent.yaml"}
\* os.environ.get("GEMINI_API_KEY"): unset, or a key
ApiKeys == {"", "key"}
\* What the provider does with a request.
Providers == {"text", "malformed", "error"}

\* A plausible slip: load_task checks the parsed task for its keys.
LoadTaskValidated(task_file) ==
    IF task_file = "task.yaml" THEN [raises |-> "none", task |-> FullTask]
    ELSE IF task_file = "nodesc.yaml" THEN [raises |-> "MalformedTaskError"]
    ELSE [raises |-> "FileNotFoundError"]

\* load_task: open the file and parse it; no key is looked at.
LoadTask(task_file) ==
    IF task_file = "task.yaml" THEN [raises |-> "none", task |-> FullTask]
    ELSE IF task_file = "nodesc.yaml" THEN [raises |-> "none", task |-> NoDescriptionTask]
    ELSE [raises |-> "FileNotFoundError"]

\* A plausible slip: the items are joined last first.
JoinReversed(items, sep) ==
    [k \in 1..(2 * Len(items) - 1) |->
        IF k % 2 = 1 THEN items[Len(items) - ((k - 1) \div 2)] ELSE sep]

RECURSIVE Join(_, _)
\* sep.join(items)
Join(items, sep) ==
    IF items = <<>> THEN <<>>
    ELSE IF Len(items) = 1 THEN <<items[1]>>
    ELSE <<items[1], sep>> \o Join(Tail(items), sep)

\* The keys the f-string of main reads, in the order it reads them.
PromptKeys == <<"description", "requirements", "interface", "tests", "files_to_modify">>

\* The first key of PromptKeys the task lacks, or 0.
FirstMissing(task) ==
    IF \A i \in 1..Len(PromptKeys) : PromptKeys[i] \in DOMAIN task THEN 0
    ELSE CHOOSE i \in 1..Len(PromptKeys) :
            /\ PromptKeys[i] \notin DOMAIN task
            /\ \A j \in 1..(i - 1) : PromptKeys[j] \in DOMAIN task

\* task_instruction, for a task that has every key
TaskInstruction(task) ==
    <<"\n", "You are an expert software engineer.", "\n", "\n", "Task:", "\n">>
    \o task.description
    \o <<"\n", "\n", "Requirements:", "\n">> \o task.requirements
    \o <<"\n", "\n", "Interface:", "\n">> \o task.interface
    \o <<"\n", "\n", "Failing tests:", "\n">> \o Join(task.tests.fail_to_pass, ", ")
    \o <<"\n", "\n", "Files to modify:", "\n">> \o Join(task.files_to_modify, ", ")
    \o <<"\n", "\n", "Explain the fix and produce patch-ready code changes.", "\n">>

\* client.models.generate_content(...): the provider's answer, or what it raises.
GenerateContent(provider, contents) ==
    IF provider = "error" THEN [raises |-> "ProviderError"]
    ELSE IF provider = "malformed" THEN [raises |-> "none", response |-> [candidates |-> <<>>]]
    ELSE [raises |-> "none",
          response |-> [candidates |-> <<[text |-> <<"patch", "\n">>]>>]]

\* str(response)
StrResponse(response) == <<"GenerateContentResponse(candidates=", "...", ")">>

\* try: text = response.candidates[0].content.parts[0].text
\* except Exception: text = str(response)
ExtractText(response) ==
    IF Len(response.candidates) >= 1 THEN response.candidates[1].text
    ELSE StrResponse(response)

\* main: parse the arguments and load the task.
MainLoad(task_file) ==
    /\ Begin("main", [task_file |-> task_file])
    /\ UNCHANGED <<fs, present, written, denied, now, entry>>
    /\ LET r == LoadTask(task_file)
       IN  IF r.raises = "none"
           THEN local' = [task |-> r.task] /\ Goto("credential")
           ELSE Raise("main", r.raises) /\ UNCHANGED local

\* A plausible slip: the credential is read but never tested, so main goes on
\* to build and log the request without it.
MainCredentialUnchecked(api_key) ==
    /\ pc = "credential"
    /\ UNCHANGED <<fs, present, written, denied, now, op, args, entry, calls, emitted, prev>>
    /\ local' = [task |-> local.task, api_key |-> api_key]
    /\ Goto("build")

\* main: read the credential; without it print the error and sys.exit(1).
MainCredential(api_key) ==
    /\ pc = "credential"
    /\ UNCHANGED <<fs, present, written, denied, now, op, args, entry, calls, emitted, prev>>
    /\ local' = [task |-> local.task, api_key |-> api_key]
    /\ IF api_key = ""
       THEN pc' = "idle" /\ result' = NoResult /\ raised' = "none" /\ exit' = "1"
       ELSE Goto("build")

\* main: build task_instruction and hand the request to log_to_agent.
MainBuild ==
    /\ pc = "build"
    /\ UNCHANGED <<fs, present, written, denied, now, op, args, calls, emitted, prev>>
    /\ IF FirstMissing(local.task) # 0
       THEN Raise("main", "KeyError") /\ UNCHANGED <<local, entry>>
       ELSE /\ local' = [task |-> local.task, api_key |-> local.api_key,
                         task_instruction |-> TaskInstruction(local.task)]
            /\ entry' = [type |-> "request", content |-> TaskInstruction(local.task)]
            /\ Goto("log")

\* main: call the model.
MainCallModel(provider) ==
    /\ pc = "call_model"
    /\ UNCHANGED <<fs, present, written, denied, now, op, args, entry, calls, emitted, prev>>
    /\ LET r == GenerateContent(provider, local.task_instruction)
       IN  IF r.raises = "none"
           THEN /\ local' = [task |-> local.task, api_key |-> local.api_key,
                             task_instruction |-> local.task_instruction,
                             response |-> r.response]
                /\ Goto("extract")
           ELSE Raise("main", r.raises) /\ UNCHANGED local

\* main: take the text of the response and hand it to log_to_agent.
MainExtract ==
    /\ pc = "extract"
    /\ UNCHANGED <<fs, present, written, denied, now, op, args, calls, emitted, prev>>
    /\ local' = [task |-> local.task, api_key |-> local.api_key,
                 task_instruction |-> local.task_instruction,
                 response |-> local.response, text |-> ExtractText(local.response)]
    /\ entry' = [type |-> "response", content |-> ExtractText(local.response)]
    /\ Goto("log")

\* main: print the text and end.
MainFinish ==
    /\ pc = "finish"
    /\ UNCHANGED <<fs, present, written, denied, now, op, args, local, entry, calls, emitted, prev>>
    /\ pc' = "idle" /\ result' = NoResult /\ raised' = "none" /\ exit' = "0"

\* ------------------------------------------------------------ specification
Next ==
    \/ \E p \in Paths : ReadFile(p)
    \/ \E p \in Paths, t \in Texts : WriteFile(p, t)
    \/ \E p \in Paths, e \in EditPairs : EditFileRead(p, e[1], e[2])
    \/ EditFileWrite
    \/ \E c \in Commands : RunBash(c)
    \/ \E e \in DirectEntries : Record(e)
    \/ LogAppend
    \/ MdAppend
    \/ \E f \in TaskFiles : MainLoad(f)
    \/ \E k \in ApiKeys : MainCredential(k)
    \/ MainBuild
    \/ \E m \in Providers : MainCallModel(m)
    \/ MainExtract
    \/ MainFinish

Spec == Init /\ [][Next]_vars

\* ------------------------------------------------------- the prompt alone
\* The lists of at most MaxItems items of S.
Items(S) == UNION {[1..n -> S] : n \in 0..MaxItems}

\* Tasks that have every key the prompt reads.
PromptTasks ==
    [description : {<<"Fix", "\n", "it">>, <<"d">>},
     requirements : {<<"req">>, <<"r1", "\n", "r2">>},
     interface : {<<"iface">>},
     tests : [fail_to_pass : Items({"test_a", "test_b"})],
     files_to_modify : Items({"src/x.py", "src/y.py"})]

\* main has loaded one of PromptTasks and read the credential.
InitPrompt ==
    /\ fs = [p \in Paths |-> <<>>]
    /\ present = {}
    /\ written = {}
    /\ denied = {}
    /\ now = 0
    /\ pc = "build"
    /\ op = "main"
    /\ args = [task_file |-> "task.yaml"]
    /\ \E t \in PromptTasks : local = [task |-> t, api_key |-> "key"]
    /\ entry = NoEntry
    /\ result = NoResult
    /\ raised = "none"
    /\ exit = "none"
    /\ calls = 1
    /\ emitted = 0
    /\ prev = NoPrev

NextPrompt == MainBuild

SpecPrompt == InitPrompt /\ [][NextPrompt]_vars

\* ------------------------------------------------------------------ claims
\* A tool has returned to its caller.
ToolReturned == pc = "idle" /\ op \in ToolOps

\* The positions of the timestamps of the records of a log text.
StampPositions(s) ==
    {i \in 1..(Len(s) - 2) : s[i] \in TimestampToks /\ s[i + 1] = "}" /\ s[i + 2] = "\n"}

\* The number of lines of a text.
NumLines(s) == CountTok(s, "\n")

\* C1: a tool call that returns success: true has appended exactly one
\* tool_use record (its own) to the structured log, and a call that returns
\* success: false (a timeout, "Old text not found", an I/O error) has
\* appended none.
C1_RecordIffSuccess ==
    ToolReturned =>
        /\ IsSuccess(result) =>
            /\ emitted = 1
            /\ entry.type = "tool_use" /\ entry.tool = op
            /\ EndsWith(LogText, LogLine(entry))
        /\ IsFailure(result) => emitted = 0
        /\ IsSuccess(result) \/ IsFailure(result)

\* A run_bash call that timed out returns failure with nothing appended,
\* after an earlier call that succeeded and appended its record.
C1_Witness ==
    /\ ToolReturned /\ op = "run_bash"
    /\ IsFailure(result) /\ result.error = "TimeoutExpired"
    /\ emitted = 0
    /\ NumLines(LogText) = 1

\* C2: the structured log is append-only: every step leaves the log's
\* earlier text in place as a prefix of the new text, and a record call
\* extends it by exactly one line.
C2_AppendOnly ==
    [][/\ IsPrefix(LogText, LogText')
       /\ (pc = "log" /\ pc' = "md") => NumLines(LogText') = NumLines(LogText) + 1]_vars

\* C3: the timestamps of the records of the log file never decrease from
\* one record to a later one.
C3_MonotoneTimestamps ==
    \A i, j \in StampPositions(LogText) :
        i < j => InstantOf(LogText[i]) <= InstantOf(LogText[j])

\* C4: when the transcript cannot be written, log_to_agent still returns
\* normally after it has appended the structured record, the record stays the
\* last line of the log, and the caller goes on: a tool returns success, the
\* controller goes on to its next step.
C4_TranscriptFailureNonFatal ==
    (/\ PROMPTS_MD_PATH \in denied
     /\ emitted >= 1
     /\ \/ pc = "idle" /\ op # "main"
        \/ pc \in {"call_model", "finish"})
    => /\ raised = "none"
       /\ EndsWith(LogText, LogLine(entry))
       /\ MdText = <<>>
       /\ op \in ToolOps => result = ToolResult(op, local)

\* write_file has returned success although prompts.md could not be opened,
\* and its record is in the log.
C4_Witness ==
    /\ ToolReturned /\ op = "write_file"
    /\ PROMPTS_MD_PATH \in denied
    /\ IsSuccess(result)
    /\ NumLines(LogText) >= 1

\* C5: read_file(path) called right after a successful write_file(path, X)
\* returns success with content X.
C5_WriteThenRead ==
    (/\ ToolReturned /\ op = "read_file"
     /\ prev.op = "write_file"
     /\ prev.args.file_path = args.file_path)
    => /\ IsSuccess(result)
       /\ result.content = prev.args.content

\* C6: when old_text occurs exactly once in the file, edit_file writes the
\* original with that occurrence replaced by new_text and succeeds, and an
\* edit_file with the same old_text right after it fails with "Old text not
\* found".
C6_EditOnceThenNotFound ==
    /\ (/\ pc = "log" /\ op = "edit_file"
        /\ Occurrences(local.original, args.old_text) = 1)
       => fs[args.file_path]
            = ReplaceFirst(local.original, args.old_text, args.new_text)
    /\ (/\ ToolReturned /\ op = "edit_file"
        /\ prev.op = "edit_file"
        /\ prev.args.file_path = args.file_path
        /\ prev.args.old_text = args.old_text
        /\ Occurrences(prev.local.original, args.old_text) = 1)
       => result = [success |-> FALSE, error |-> "Old text not found"]

\* C7: the file edit_file has written is the file as it was with the first
\* occurrence of old_text replaced by new_text and everything else, later
\* occurrences included, unchanged.
C7_FirstOccurrenceOnly ==
    (pc = "log" /\ op = "edit_file")
    => /\ Contains(local.original, args.old_text)
       /\ fs[args.file_path]
            = ReplaceFirst(local.original, args.old_text, args.new_text)

\* C8: run_bash returns success: false exactly when the process could not
\* be spawned or ran for more than 60 seconds.
C8_FailureOnlySpawnOrTimeout ==
    (ToolReturned /\ op = "run_bash")
    => (IsFailure(result)
        <=> (~Exec(args.command).spawned
             \/ Exec(args.command).seconds > TIMEOUT_SECONDS))

\* C8, amended: run_bash returns success: false exactly when the process
\* could not be spawned, ran for more than 60 seconds, wrote output that does
\* not decode as text, or when the log could not be opened for its record; in
\* every other case, a non-zero exit status included, it returns success with
\* the process's stdout and stderr.
C8_FailureCauses ==
    (ToolReturned /\ op = "run_bash")
    => LET x == Exec(args.command)
       IN  IF \/ ~x.spawned
              \/ x.seconds > TIMEOUT_SECONDS
              \/ ~x.decodable
              \/ AGENT_LOG_PATH \in denied
           THEN IsFailure(result)
           ELSE result = [success |-> TRUE, stdout |-> x.stdout, stderr |-> x.stderr]

\* run_bash has returned success for a command that exited with status 1.
C8_Witness ==
    /\ ToolReturned /\ op = "run_bash"
    /\ Exec(args.command).returncode = 1
    /\ IsSuccess(result)
    /\ result.stderr # <<>>

\* C9: a tool call never raises to its caller, and what it returns is either
\* success: true with no error field, or success: false with an error text
\* and nothing else.
C9_ResultShape ==
    /\ op \in ToolOps => raised = "none"
    /\ ToolReturned =>
        \/ IsSuccess(result) /\ "error" \notin DOMAIN result
        \/ IsFailure(result) /\ DOMAIN result = {"success", "error"}

\* edit_file has returned the failure shape for a file that does not exist,
\* and run_bash for a command that timed out is covered by C1_Witness.
C9_Witness ==
    /\ ToolReturned /\ op = "edit_file"
    /\ result = [success |-> FALSE, error |-> "FileNotFoundError"]

\* C10: once the controller has logged its request, the run ends in Done
\* (exit status 0, no exception) with a response record appended after the
\* request record, whatever the provider does.
C10_ProviderFailureNotFatal ==
    (pc = "idle" /\ op = "main" /\ emitted >= 1)
    => /\ exit = "0" /\ raised = "none"
       /\ emitted = 2
       /\ entry.type = "response"
       /\ EndsWith(LogText, LogLine(entry))

\* C11: a controller run that finds no credential ends with exit status 1
\* and no exception, never goes on to build, log or call the model, and no
\* step of the run changes a file: nothing is appended to the structured
\* log or to the transcript.
C11_MissingCredentialNoEffect ==
    [][/\ (pc = "idle" /\ pc' = "credential")
            => (fs' = fs /\ present' = present /\ emitted' = 0)
       /\ (pc = "credential" /\ local'.api_key = "")
            => /\ pc' = "idle" /\ exit' = "1" /\ raised' = "none"
               /\ fs' = fs /\ present' = present /\ emitted' = 0]_vars

\* The controller has ended on the missing credential, with a log that
\* earlier calls had written to.
C11_Witness ==
    /\ pc = "idle" /\ op = "main"
    /\ exit = "1" /\ raised = "none"
    /\ local.api_key = ""
    /\ emitted = 0
    /\ NumLines(LogText) >= 1

\* C12: a controller run with a complete task and a credential (and a log
\* it can write) ends in Done, exit status 0, having appended exactly two
\* records: the request, then, after the model call, the response.
C12_OnePassToDone ==
    (/\ pc = "idle" /\ op = "main"
     /\ args.task_file = "task.yaml"
     /\ local.api_key = "key"
     /\ AGENT_LOG_PATH \notin denied)
    => /\ exit = "0" /\ raised = "none"
       /\ emitted = 2
       /\ \E t \in Instants :
            EndsWith(LogText,
                     LogLine([type |-> "request", content |-> local.task_instruction,
                              timestamp |-> IsoFormat(t)])
                     \o LogLine([type |-> "response", content |-> local.text,
                                 timestamp |-> entry.timestamp]))

\* C13: a controller run on a task file without the description key gets
\* past load_task without an exception; it appends no record and never gets
\* further than the step that builds the prompt, where it ends with a
\* KeyError (or, without a credential, one step earlier on the credential
\* check).
C13_DeferredKeyError ==
    (op = "main" /\ args.task_file = "nodesc.yaml")
    => /\ emitted = 0
       /\ pc \in {"credential", "build", "idle"}
       /\ pc # "idle" => (raised = "none" /\ exit = "none")
       /\ pc = "idle" =>
            /\ exit = "1"
            /\ \/ raised = "KeyError" /\ local.api_key = "key"
               \/ raised = "none" /\ local.api_key = ""

\* The run on the task without description has ended with the KeyError of
\* the prompt building, after earlier calls had written to the log.
C13_Witness ==
    /\ pc = "idle" /\ op = "main" /\ args.task_file = "nodesc.yaml"
    /\ raised = "KeyError"
    /\ local.api_key = "key"
    /\ "task_instruction" \notin DOMAIN local
    /\ NumLines(LogText) >= 1

\* C14: in a record call whose entry has a type other than request,
\* response or tool_use, the step that writes the log appends exactly the
\* entry's line, as for any entry, and no step changes the text of the
\* transcript.
C14_UnknownTypeLogOnly ==
    [][(op' = "log_to_agent" /\ entry'.type \notin EntryTypes)
        => /\ fs'[PROMPTS_MD_PATH] = fs[PROMPTS_MD_PATH]
           /\ pc = "log" =>
                \/ pc' = "md" /\ LogText' = LogText \o JsonDumps(entry') \o <<"\n">>
                \/ AGENT_LOG_PATH \in denied /\ LogText' = LogText
           /\ pc # "log" => LogText' = LogText
           /\ pc = "md" => pc' = "idle"]_vars

\* A record call with an entry of type "note" has returned: its line ends
\* the log, and the transcript, which could be written, holds nothing.
C14_Witness ==
    /\ pc = "idle" /\ op = "log_to_agent"
    /\ entry.type = "note"
    /\ emitted = 1
    /\ EndsWith(LogText, LogLine(entry))
    /\ PROMPTS_MD_PATH \notin denied
    /\ PROMPTS_MD_PATH \in present
    /\ MdText = <<>>

\* The first position from `from` on at which sub starts in s, or 0.
FindFrom(s, sub, from) ==
    LET at == {i \in from..(Len(s) + 1) : StartsAt(s, i, sub)}
    IN  IF at = {} THEN 0 ELSE CHOOSE i \in at : \A j \in at : i <= j

RECURSIVE InOrderFrom(_, _, _)
\* The texts of pieces occur in s from `from` on, one after the other
\* without overlap, in the order of pieces.
InOrderFrom(s, pieces, from) ==
    IF pieces = <<>> THEN TRUE
    ELSE LET i == FindFrom(s, Head(pieces), from)
         IN  i # 0 /\ InOrderFrom(s, Tail(pieces), i + Len(Head(pieces)))

\* The items in their order with ", " between each two.
CommaSeparated(items) ==
    [k \in 1..(2 * Len(items) - 1) |-> IF k % 2 = 1 THEN items[(k + 1) \div 2] ELSE ", "]

\* C15: the prompt built from a task that has every field holds the text of
\* description, then of requirements, then of interface, then the
\* fail_to_pass identifiers in their order with ", " between them, then the
\* files_to_modify paths in their order with ", " between them; it is the
\* text handed to the request record, and it depends on the task alone.
C15_PromptFieldsInOrder ==
    (op = "main" /\ pc = "log" /\ entry.type = "request")
    => /\ entry.content = local.task_instruction
       /\ InOrderFrom(entry.content,
                      <<local.task.description, local.task.requirements,
                        local.task.interface,
                        CommaSeparated(local.task.tests.fail_to_pass),
                        CommaSeparated(local.task.files_to_modify)>>, 1)
       /\ \A t \in PromptTasks :
            t = local.task => TaskInstruction(t) = entry.content

\* The prompt has been built from a task with two different tests and two
\* different files.
C15_Witness ==
    /\ op = "main" /\ pc = "log" /\ entry.type = "request"
    /\ local.task.tests.fail_to_pass = <<"test_b", "test_a">>
    /\ local.task.files_to_modify = <<"src/x.py", "src/y.py">>
    /\ Len(entry.content) > 20

\* C16: an edit_file call that returns "Old text not found" changes no
\* file: the target, the structured log and the transcript hold after the
\* call what they held before it.
C16_NotFoundChangesNothing ==
    [][(/\ pc = "idle" /\ calls' = calls + 1 /\ op' = "edit_file"
        /\ pc' = "idle"
        /\ result' = [success |-> FALSE, error |-> "Old text not found"])
        => (fs' = fs /\ present' = present /\ emitted' = 0)]_vars

\* edit_file has returned "Old text not found" for the user's file, which
\* holds a carriage return, after an earlier call had appended to the log
\* and the transcript.
C16_Witness ==
    /\ ToolReturned /\ op = "edit_file"
    /\ result = [success |-> FALSE, error |-> "Old text not found"]
    /\ args.file_path = USER_PATH
    /\ Contains(fs[USER_PATH], <<"\r">>)
    /\ NumLines(LogText) >= 1
    /\ MdText # <<>>

\* The tools whose action is a file write.
WritingTools == {"write_file", "edit_file"}

\* The paths the write_file and edit_file records of a log text name.
WriteRecordPaths(s) ==
    {s[i + 3] : i \in {j \in 1..(Len(s) - 3) :
                        /\ s[j] = "{" /\ s[j + 1] = "tool_use" /\ s[j + 2] \in WritingTools
                        /\ (j = 1 \/ s[j - 1] = "\n")}}

\* C17: in every state, those between two steps of a call included, every
\* write_file or edit_file record of the log names a file one of these tools
\* has already written, the running call has appended its record only after
\* its own write, and a call that wrote its file and could not append its
\* record has returned success: false with the file holding what it wrote.
C17_RecordAfterWrite ==
    /\ WriteRecordPaths(LogText) \subseteq written
    /\ (op \in WritingTools /\ emitted >= 1) => args.file_path \in written
    /\ (/\ ToolReturned /\ op = "write_file"
        /\ args.file_path \notin denied /\ AGENT_LOG_PATH \in denied)
        => /\ IsFailure(result)
           /\ fs[args.file_path] = TextWrite(args.content)
    /\ (/\ ToolReturned /\ op = "edit_file"
        /\ CanRead(args.file_path) /\ AGENT_LOG_PATH \in denied
        /\ "new_content" \in DOMAIN local)
        => /\ IsFailure(result)
           /\ fs[args.file_path] = TextWrite(local.new_content)

\* The section headings log_to_agent writes to the transcript.
SectionHeadings == {"## Prompt Sent to Gemini", "## Gemini Response", "## Tool Used: "}

\* The number of sections of a transcript text.
NumSections(s) == Cardinality({i \in 1..Len(s) : s[i] \in SectionHeadings})

\* The number of records of type request, response or tool_use of a log text.
NumRecords(s) ==
    Cardinality({i \in 1..(Len(s) - 1) :
                    /\ s[i] = "{" /\ s[i + 1] \in EntryTypes
                    /\ (i = 1 \/ s[i - 1] = "\n")})

\* C18: in every state, those between the two writes of a record call
\* included, the transcript holds at most as many sections as the
\* structured log holds records of type request, response or tool_use.
C18_SectionsWithinRecords == NumSections(MdText) <= NumRecords(LogText)

====
